---------------------------- MODULE Spec2Model ----------------------------
(***************************************************************************)
(* Model of app/utils.py of Control-Financiero-Proyectos-Inteligente:      *)
(* compute_kpis, flag_risk and summary_table, as the dashboard calls them. *)
(*                                                                         *)
(* Numbers.  A Python/numpy float is modelled as an exact rational         *)
(* <<n, d>> with d > 0 in lowest terms, or as NaN == <<0, 0>> (what        *)
(* pd.to_numeric(errors="coerce") makes of a malformed cell).  Rounding of *)
(* binary floating point is not modelled.  A date is <<day>> (a day        *)
(* number) or NaT == <<>>.                                                 *)
(***************************************************************************)
EXTENDS Integers, Sequences, FiniteSets

VARIABLES pc, df, kpis, assessment, summary

vars == <<pc, df, kpis, assessment, summary>>

---------------------------------------------------------------------------
(* Bounds of the model. *)

\* Longest project series handed to compute_kpis.
MaxPoints == 3

\* Longest table handed to summary_table.
MaxRows == 3

---------------------------------------------------------------------------
(* Floats as exact rationals, with NaN. *)

NaN == <<0, 0>>

NaT == <<>>

IsNaN(a) == a[2] = 0

IsNaT(t) == Len(t) = 0

Abs(n) == IF n < 0 THEN -n ELSE n

RECURSIVE GCD(_, _)
GCD(a, b) == IF b = 0 THEN a ELSE GCD(b, a % b)

\* The rational n/d (d # 0) in lowest terms with a positive denominator.
Norm(n, d) ==
  LET g == GCD(Abs(n), Abs(d))
      s == IF d < 0 THEN -1 ELSE 1
  IN  <<(s * n) \div g, (s * d) \div g>>

Num(n) == <<n, 1>>

Add(a, b) ==
  IF IsNaN(a) \/ IsNaN(b) THEN NaN
  ELSE LET g == GCD(a[2], b[2])
       IN  Norm(a[1] * (b[2] \div g) + b[1] * (a[2] \div g), (a[2] \div g) * b[2])

Neg(a) == IF IsNaN(a) THEN NaN ELSE <<-a[1], a[2]>>

Sub(a, b) == Add(a, Neg(b))

Mul(a, b) ==
  IF IsNaN(a) \/ IsNaN(b) THEN NaN
  ELSE LET p == Norm(a[1], b[2])
           q == Norm(b[1], a[2])
       IN  Norm(p[1] * q[1], p[2] * q[2])

\* a / b for a divisor the code has found truthy (non-zero, or NaN).
Div(a, b) ==
  IF IsNaN(a) \/ IsNaN(b) THEN NaN
  ELSE Mul(a, Norm(b[2], b[1]))

\* Python's abs() of a float.
FAbs(a) == IF IsNaN(a) THEN NaN ELSE <<Abs(a[1]), a[2]>>

\* Comparisons of floats: every comparison with NaN is False.
Gt(a, b) == ~IsNaN(a) /\ ~IsNaN(b) /\ a[1] * b[2] > b[1] * a[2]

Ge(a, b) == ~IsNaN(a) /\ ~IsNaN(b) /\ a[1] * b[2] >= b[1] * a[2]

\* Python's truth value of a float: False only for 0.0; NaN is truthy.
Truthy(a) == IsNaN(a) \/ a[1] # 0

\* np.isfinite
IsFinite(a) == ~IsNaN(a)

\* np.clip(v, lo, hi): NaN passes through.
Clip(v, lo, hi) ==
  IF IsNaN(v) THEN NaN
  ELSE IF Gt(lo, v) THEN lo
  ELSE IF Gt(v, hi) THEN hi
  ELSE v

---------------------------------------------------------------------------
(* DataFrame helpers.  A DataFrame is a sequence of rows; a row is a record *)
(* [project_id, budget, start_date, end_date, date, cumulative_spend].      *)

Range(s) == {s[i] : i \in 1..Len(s)}

\* Series.min() / Series.max() of a date column (NaT cells are skipped).
MinDate(col) ==
  LET ds == {t \in Range(col) : ~IsNaT(t)}
  IN  IF ds = {} THEN NaT ELSE CHOOSE t \in ds : \A u \in ds : t[1] <= u[1]

MaxDate(col) ==
  LET ds == {t \in Range(col) : ~IsNaT(t)}
  IN  IF ds = {} THEN NaT ELSE CHOOSE t \in ds : \A u \in ds : t[1] >= u[1]

\* (a - b).days for two Timestamps; NaN when either is NaT.
Days(a, b) == IF IsNaT(a) \/ IsNaT(b) THEN NaN ELSE Num(a[1] - b[1])

\* PositiveOr1 taking the length of a reversed span instead of clamping it.
PositiveOr1Abs(d) ==
  IF Gt(d, Num(0)) THEN d[1] ELSE IF Gt(Num(0), d) THEN -d[1] ELSE 1

\* `d if d > 0 else 1` on a .days value (NaN > 0 is False).
PositiveOr1(d) == IF Gt(d, Num(0)) THEN d[1] ELSE 1

\* LatestCandidates trusting the input order: df.iloc[-1].
LatestLastRow(d) == {d[Len(d)]}

\* The rows that df.sort_values("date").iloc[-1] can return.  NaT sorts
\* last; the default sort kind (quicksort) is not stable, so among rows
\* with the same greatest date any one may come last.
LatestCandidates(d) ==
  LET nat == {i \in 1..Len(d) : IsNaT(d[i].date)}
      mx  == MaxDate([i \in 1..Len(d) |-> d[i].date])
  IN  IF nat # {} THEN {d[i] : i \in nat}
      ELSE {d[i] : i \in {j \in 1..Len(d) : d[j].date = mx}}

RECURSIVE SumInt(_)
SumInt(s) == IF s = <<>> THEN 0 ELSE Head(s) + SumInt(Tail(s))

RECURSIVE SumNum(_)
SumNum(s) == IF s = <<>> THEN Num(0) ELSE Add(Head(s), SumNum(Tail(s)))

\* Polyfit drawing the line through the first and the last point only.
PolyfitEndpoints(x, y) ==
  LET n == Len(x)
      m == Div(Sub(y[n], y[1]), Num(x[n] - x[1]))
  IN  IF x[1] # x[n]
        THEN [raised |-> FALSE, coef |-> <<m, Sub(y[1], Mul(m, Num(x[1])))>>]
        ELSE [raised |-> TRUE, coef |-> <<NaN, NaN>>]

\* np.polyfit(x, y, 1) on finite data (x: day offsets, y: floats).
\* Full rank: the least-squares line.  All x equal to a # 0: lstsq's
\* minimum-norm solution on the column-scaled Vandermonde matrix (a
\* RankWarning, no exception).  All x equal to 0: the scaling divides the
\* zero column by its zero norm, lstsq gets NaN and raises LinAlgError.
Polyfit(x, y) ==
  LET n   == Len(x)
      Sx  == SumInt(x)
      Sxx == SumInt([i \in 1..n |-> x[i] * x[i]])
      Sy  == SumNum(y)
      Sxy == SumNum([i \in 1..n |-> Mul(Num(x[i]), y[i])])
      D   == n * Sxx - Sx * Sx
      m   == Div(Sub(Mul(Num(n), Sxy), Mul(Num(Sx), Sy)), Num(D))
  IN  IF D # 0
        THEN [raised |-> FALSE,
              coef |-> <<m, Div(Sub(Sy, Mul(m, Num(Sx))), Num(n))>>]
      ELSE IF x[1] # 0
        THEN [raised |-> FALSE,
              coef |-> <<Div(Sy, Num(2 * n * x[1])), Div(Sy, Num(2 * n))>>]
      ELSE [raised |-> TRUE, coef |-> <<NaN, NaN>>]

\* latest_spend * (days_total / days_elapsed)
Fallback(latest_spend, days_total, days_elapsed) ==
  Mul(latest_spend, Norm(days_total, days_elapsed))

\* The try block of compute_kpis (lines 34-44).
Forecast(d, start, latest_spend, days_total, days_elapsed) ==
  LET x == [i \in 1..Len(d) |-> Days(d[i].date, start)]
      y == [i \in 1..Len(d) |-> d[i].cumulative_spend]
  IN  IF Len(x) >= 2 /\ (\A i \in 1..Len(x) : IsFinite(x[i]))
                     /\ (\A i \in 1..Len(y) : IsFinite(y[i]))
        THEN LET fit == Polyfit([i \in 1..Len(x) |-> x[i][1]], y)
             IN  IF fit.raised
                   THEN Fallback(latest_spend, days_total, days_elapsed)
                   ELSE Add(Mul(fit.coef[1], Num(days_total)), fit.coef[2])
        ELSE Fallback(latest_spend, days_total, days_elapsed)

\* (variance_pct * 0.6 + overload * 0.4) * 100, clipped to [-1000, 1000].
RiskScore(variance_pct, overload) ==
  Clip(Mul(Add(Mul(variance_pct, <<3, 5>>), Mul(overload, <<2, 5>>)), Num(100)),
       Num(-1000), Num(1000))

\* GuardedRatio without the zero of the else branch.
GuardedRatioUnscaled(num, budget) ==
  IF Truthy(budget) THEN Div(num, budget) ELSE num

\* `num / budget if budget else 0` (lines 27, 28 and 48).
GuardedRatio(num, budget) ==
  IF Truthy(budget) THEN Div(num, budget) ELSE Num(0)

\* compute_kpis on a non-empty frame, `latest` being the row that
\* sort_values("date").iloc[-1] returned.
KpisWith(d, latest) ==
  LET budget       == d[1].budget
      start        == MinDate([i \in 1..Len(d) |-> d[i].start_date])
      end          == MaxDate([i \in 1..Len(d) |-> d[i].end_date])
      latest_date  == latest.date
      latest_spend == latest.cumulative_spend
      days_total   == PositiveOr1(Days(end, start))
      days_elapsed == PositiveOr1(Days(latest_date, start))
      pct_execution == GuardedRatio(latest_spend, budget)
      variance_pct == GuardedRatio(Sub(latest_spend, budget), budget)
      burn_rate    == IF days_elapsed # 0
                        THEN Div(latest_spend, Num(days_elapsed)) ELSE Num(0)
      forecast     == Forecast(d, start, latest_spend, days_total, days_elapsed)
      overload     == GuardedRatio(Sub(forecast, budget), budget)
  IN  [exc |-> "None",
       budget |-> budget,
       latest_spend |-> latest_spend,
       pct_execution |-> pct_execution,
       variance_pct |-> variance_pct,
       burn_rate |-> burn_rate,
       days_elapsed |-> days_elapsed,
       days_total |-> days_total,
       forecast_to_complete |-> forecast,
       risk_score |-> RiskScore(variance_pct, overload),
       latest_date |-> latest_date]

\* ComputeKpis answering an empty frame with a zero-valued record.
ComputeKpisZeroOnEmpty(d) ==
  IF Len(d) = 0
    THEN {[exc |-> "None", budget |-> Num(0), latest_spend |-> Num(0),
           pct_execution |-> Num(0), variance_pct |-> Num(0),
           burn_rate |-> Num(0), days_elapsed |-> 1, days_total |-> 1,
           forecast_to_complete |-> Num(0), risk_score |-> Num(0),
           latest_date |-> NaT]}
    ELSE {KpisWith(d, latest) : latest \in LatestCandidates(d)}

\* Every result compute_kpis(d) can have.  On an empty frame
\* df["budget"].iloc[0] raises IndexError.
ComputeKpis(d) ==
  IF Len(d) = 0 THEN {[exc |-> "IndexError"]}
  ELSE {KpisWith(d, latest) : latest \in LatestCandidates(d)}

---------------------------------------------------------------------------
(* flag_risk.  A message is modelled by the condition that appended it;   *)
(* the returned string is the messages joined by " | ", in this order.    *)

\* FlagRisk whose flag forgets the forecast-over-budget condition.
FlagRiskNoForecast(k, variance_threshold, risk_threshold) ==
  LET is_var  == Ge(FAbs(k.variance_pct), variance_threshold)
      is_risk == Ge(FAbs(k.risk_score), risk_threshold)
      over    == Gt(k.forecast_to_complete, k.budget)
      m1 == IF is_var THEN <<"variance">> ELSE <<>>
      m2 == IF is_risk THEN Append(m1, "risk_score") ELSE m1
      m3 == IF over THEN Append(m2, "forecast_over_budget") ELSE m2
      m4 == IF m3 = <<>> THEN Append(m3, "no_relevant_risk") ELSE m3
  IN  [exc |-> "None",
       is_risky |-> (is_var \/ is_risk),
       messages |-> m4,
       variance_threshold |-> variance_threshold,
       risk_threshold |-> risk_threshold]

FlagRisk(k, variance_threshold, risk_threshold) ==
  LET is_var  == Ge(FAbs(k.variance_pct), variance_threshold)
      is_risk == Ge(FAbs(k.risk_score), risk_threshold)
      over    == Gt(k.forecast_to_complete, k.budget)
      m1 == IF is_var THEN <<"variance">> ELSE <<>>
      m2 == IF is_risk THEN Append(m1, "risk_score") ELSE m1
      m3 == IF over THEN Append(m2, "forecast_over_budget") ELSE m2
      m4 == IF m3 = <<>> THEN Append(m3, "no_relevant_risk") ELSE m3
  IN  [exc |-> "None",
       is_risky |-> (is_var \/ is_risk \/ over),
       messages |-> m4,
       variance_threshold |-> variance_threshold,
       risk_threshold |-> risk_threshold]

---------------------------------------------------------------------------
(* summary_table. *)

\* The keys of df.groupby("project_id"), which iterates them in ascending
\* order (sort=True is the default).
RECURSIVE SortedKeys(_)
SortedKeys(S) ==
  IF S = {} THEN <<>>
  ELSE LET m == CHOOSE a \in S : \A b \in S : a <= b
       IN  <<m>> \o SortedKeys(S \ {m})

GroupKeys(t) == SortedKeys({t[i].project_id : i \in 1..Len(t)})

\* The rows of one group, in their order in the table.
Group(t, pid) == SelectSeq(t, LAMBDA r : r.project_id = pid)

\* The dict appended to `projects` for one group (project_name, a label
\* copied from the group's first row, is left out).
ProjectRow(pid, k) ==
  [project_id |-> pid,
   budget |-> k.budget,
   latest_spend |-> k.latest_spend,
   pct_execution |-> k.pct_execution,
   variance_pct |-> k.variance_pct,
   forecast_to_complete |-> k.forecast_to_complete,
   risk_score |-> k.risk_score]

Permutations(n) ==
  {f \in [1..n -> 1..n] : \A i, j \in 1..n : f[i] = f[j] => i = j}

\* SortValuesDesc sorting in ascending order.
SortValuesAsc(projects) ==
  LET n == Len(projects)
      Ordered(s) ==
        \A i \in 1..(n - 1) :
          \/ IsNaN(s[i + 1].risk_score)
          \/ Ge(s[i + 1].risk_score, s[i].risk_score)
  IN  {s \in {[i \in 1..n |-> projects[f[i]]] : f \in Permutations(n)} : Ordered(s)}

\* The frames DataFrame(projects).sort_values("risk_score", ascending=False)
\* can return: NaN scores last, the others in non-increasing order; the
\* default sort kind (quicksort) is not stable, so rows with equal scores
\* come in any order.
SortValuesDesc(projects) ==
  LET n == Len(projects)
      Ordered(s) ==
        \A i \in 1..(n - 1) :
          \/ IsNaN(s[i + 1].risk_score)
          \/ Ge(s[i].risk_score, s[i + 1].risk_score)
  IN  {s \in {[i \in 1..n |-> projects[f[i]]] : f \in Permutations(n)} : Ordered(s)}

\* Every result summary_table(t) can have.  An exception of compute_kpis is
\* not caught; with no group at all, sort_values finds no "risk_score"
\* column and raises KeyError.
SummaryTable(t) ==
  LET keys == GroupKeys(t)
      n    == Len(keys)
      ks   == {f \in [1..n -> UNION {ComputeKpis(Group(t, keys[i])) : i \in 1..n}] :
                 \A i \in 1..n : f[i] \in ComputeKpis(Group(t, keys[i]))}
      Result(f) ==
        IF \E i \in 1..n : f[i].exc # "None"
          THEN {[exc |-> f[CHOOSE i \in 1..n :
                            /\ f[i].exc # "None"
                            /\ \A j \in 1..(i - 1) : f[j].exc = "None"].exc]}
          ELSE {[exc |-> "None", rows |-> s] :
                  s \in SortValuesDesc([i \in 1..n |-> ProjectRow(keys[i], f[i])])}
  IN  IF n = 0 THEN {[exc |-> "KeyError"]}
      ELSE UNION {Result(f) : f \in ks}

---------------------------------------------------------------------------
(* The inputs the model draws from. *)

\* (date, cumulative_spend) of a row: the points (day 0, 0), (day 10, 400),
\* (day 20, 800), a point off their line, a missing spend on an already
\* used date, and a missing date.
PointValues ==
  { <<<<0>>, Num(0)>>, <<<<10>>, Num(400)>>, <<<<20>>, Num(800)>>,
    <<<<10>>, Num(800)>>, <<<<20>>, NaN>>, <<NaT, Num(400)>> }

\* (date, cumulative_spend) of a row of a portfolio table.
TablePointValues ==
  { <<<<10>>, Num(400)>>, <<<<20>>, Num(800)>>, <<<<20>>, NaN>> }

Budgets == {Num(0), Num(10), Num(1000), NaN}

StartDates == {<<0>>, <<20>>}

EndDates == {<<0>>, <<40>>}

ProjectIds == {1, 2, 3}

\* The sidebar's thresholds: the defaults (10 %, 5.0) and a higher setting.
VarianceThresholds == {<<1, 10>>, <<1, 2>>}

RiskThresholds == {Num(5), Num(13)}

Row(pid, budget, start, end, pt) ==
  [project_id |-> pid, budget |-> budget, start_date |-> start,
   end_date |-> end, date |-> pt[1], cumulative_spend |-> pt[2]]

NotCalled == [exc |-> "NotCalled"]

---------------------------------------------------------------------------
(* The state machine: one run of the dashboard script after another.  A   *)
(* run calls summary_table on the whole table ("Todos"), or compute_kpis  *)
(* and then flag_risk on one project's rows; any interaction reruns it.   *)

Init ==
  /\ pc = "start"
  /\ df = <<>>
  /\ kpis = NotCalled
  /\ assessment = NotCalled
  /\ summary = NotCalled

\* kpis = compute_kpis(proj_df), for one project's rows.
compute_kpis ==
  /\ pc = "start"
  /\ \E n \in 0..MaxPoints, budget \in Budgets, start \in StartDates, end \in EndDates :
       \E pts \in [1..n -> PointValues] :
         LET d == [i \in 1..n |-> Row(1, budget, start, end, pts[i])]
         IN  /\ df' = d
             /\ kpis' \in ComputeKpis(d)
  /\ pc' = "kpis"
  /\ UNCHANGED <<assessment, summary>>

\* risky, message = flag_risk(kpis, variance_threshold / 100.0, risk_threshold)
flag_risk ==
  /\ pc = "kpis"
  /\ kpis.exc = "None"
  /\ \E vt \in VarianceThresholds, rt \in RiskThresholds :
       assessment' = FlagRisk(kpis, vt, rt)
  /\ pc' = "flagged"
  /\ UNCHANGED <<df, kpis, summary>>

\* summary = summary_table(df), over a table of several projects.
summary_table ==
  /\ pc = "start"
  /\ \E n \in 0..MaxRows, budget \in Budgets :
       \E cells \in [1..n -> ProjectIds \X TablePointValues] :
         LET t == [i \in 1..n |-> Row(cells[i][1], budget, <<0>>, <<40>>, cells[i][2])]
         IN  /\ df' = t
             /\ summary' \in SummaryTable(t)
  /\ pc' = "summary"
  /\ UNCHANGED <<kpis, assessment>>

\* The script runs again from the top.
rerun ==
  /\ pc # "start"
  /\ pc' = "start"
  /\ df' = <<>>
  /\ kpis' = NotCalled
  /\ assessment' = NotCalled
  /\ summary' = NotCalled

Next == compute_kpis \/ flag_risk \/ summary_table \/ rerun

Spec == Init /\ [][Next]_vars

---------------------------------------------------------------------------
(* Properties. *)

\* == of two floats: False when either is NaN.
Eq(a, b) == ~IsNaN(a) /\ ~IsNaN(b) /\ a = b

KpisReturned == pc \in {"kpis", "flagged"} /\ kpis.exc = "None"

SummaryReturned == pc = "summary" /\ summary.exc = "None"

\* The position in the table of a project's first row.
FirstSeen(t, pid) ==
  CHOOSE i \in 1..Len(t) :
    /\ t[i].project_id = pid
    /\ \A j \in 1..(i - 1) : t[j].project_id # pid

DateColumn(d) == [i \in 1..Len(d) |-> d[i].date]

DefinedDates(d) == \A i \in 1..Len(d) : ~IsNaT(d[i].date)

DistinctDates(d) == \A i, j \in 1..Len(d) : d[i].date = d[j].date => i = j

\* The day offsets and spends the forecast is fitted on.
XOf(d) == [i \in 1..Len(d) |-> Days(d[i].date, d[1].start_date)]

YOf(d) == [i \in 1..Len(d) |-> d[i].cumulative_spend]

\* At least two points, every day offset and spend finite.
Usable(d) ==
  /\ Len(d) >= 2
  /\ \A i \in 1..Len(d) : IsFinite(XOf(d)[i]) /\ IsFinite(YOf(d)[i])

\* The day offsets are not all the same (the fit is determined).
FullRank(d) == \E i, j \in 1..Len(d) : XOf(d)[i] # XOf(d)[j]

\* The day offsets are all 0 (the fit raises).
FitFails(d) == \A i \in 1..Len(d) : XOf(d)[i] = Num(0)

Max1(n) == IF n > 1 THEN n ELSE 1

(* ---- C1 ---- *)

\* C1 (as claimed): the rows of summary_table are in non-increasing order of
\* risk_score, and projects with equal risk_score keep the order in which
\* their project_ids were first met in the input table.
C1_StableEncounterOrder ==
  SummaryReturned =>
    \A i, j \in 1..Len(summary.rows) :
      i < j =>
        /\ ~Gt(summary.rows[j].risk_score, summary.rows[i].risk_score)
        /\ Eq(summary.rows[i].risk_score, summary.rows[j].risk_score) =>
             FirstSeen(df, summary.rows[i].project_id)
               < FirstSeen(df, summary.rows[j].project_id)

\* C1 (amended): summary_table returns one row per distinct project_id, the
\* rows with a numeric risk_score in non-increasing order of it and before
\* every row whose risk_score is NaN; the order of equal scores is not fixed.
C1_SortedDescending ==
  SummaryReturned =>
    /\ Len(summary.rows) = Cardinality({df[i].project_id : i \in 1..Len(df)})
    /\ {summary.rows[i].project_id : i \in 1..Len(summary.rows)}
         = {df[i].project_id : i \in 1..Len(df)}
    /\ \A i, j \in 1..Len(summary.rows) :
         i < j =>
           \/ IsNaN(summary.rows[j].risk_score)
           \/ Ge(summary.rows[i].risk_score, summary.rows[j].risk_score)

\* Three projects ranked, two of them tied, the scores not all equal.
C1_Witness ==
  /\ SummaryReturned
  /\ Len(summary.rows) = 3
  /\ Gt(summary.rows[1].risk_score, summary.rows[2].risk_score)
  /\ Eq(summary.rows[2].risk_score, summary.rows[3].risk_score)

(* ---- C2 ---- *)

\* C2: flag_risk returns is_risky = true iff one of the three conditions
\* holds (|variance_pct| >= variance_threshold, |risk_score| >= risk_threshold,
\* forecast_to_complete > budget), and its reasons are one per holding
\* condition in that fixed order, or the single no-risk reason if none holds.
C2_FlagRiskReasons ==
  (pc = "flagged") =>
    LET c1 == Ge(FAbs(kpis.variance_pct), assessment.variance_threshold)
        c2 == Ge(FAbs(kpis.risk_score), assessment.risk_threshold)
        c3 == Gt(kpis.forecast_to_complete, kpis.budget)
        holding == SelectSeq(<<"variance", "risk_score", "forecast_over_budget">>,
                     LAMBDA r : \/ r = "variance" /\ c1
                                \/ r = "risk_score" /\ c2
                                \/ r = "forecast_over_budget" /\ c3)
    IN  /\ assessment.is_risky = (c1 \/ c2 \/ c3)
        /\ assessment.messages =
             IF c1 \/ c2 \/ c3 THEN holding ELSE <<"no_relevant_risk">>

\* Only the forecast-over-budget condition holds.
C2_Witness ==
  /\ pc = "flagged"
  /\ assessment.is_risky
  /\ assessment.messages = <<"forecast_over_budget">>

(* ---- C3 ---- *)

\* C3 (as claimed): the risk_score of compute_kpis is a number r with
\* -1000 <= r <= 1000, whatever the budget, dates and spends (missing ones
\* included).
C3_RiskScoreInRange ==
  KpisReturned =>
    /\ Ge(kpis.risk_score, Num(-1000))
    /\ Ge(Num(1000), kpis.risk_score)

(* ---- C4 ---- *)

C5_ZeroBudget ==
  (KpisReturned /\ Eq(df[1].budget, Num(0))) =>
    /\ kpis.pct_execution = Num(0)
    /\ kpis.variance_pct = Num(0)
    /\ kpis.risk_score = Num(0)

\* Budget 0 with money spent and a forecast above it.
C5_Witness ==
  /\ KpisReturned
  /\ Eq(df[1].budget, Num(0))
  /\ Gt(kpis.latest_spend, Num(0))
  /\ Gt(kpis.forecast_to_complete, Num(0))

(* ---- C6 ---- *)

\* C6 (as claimed): with a missing budget (NaN), compute_kpis degrades as
\* for budget 0: pct_execution = 0, variance_pct = 0 and risk_score = 0.
C6_MissingBudget ==
  (KpisReturned /\ IsNaN(df[1].budget)) =>
    /\ kpis.pct_execution = Num(0)
    /\ kpis.variance_pct = Num(0)
    /\ kpis.risk_score = Num(0)

(* ---- C7 ---- *)

\* C7: days_total >= 1 and days_elapsed >= 1 for every combination of
\* dates; days_total = max(1, end_date - start_date) and days_elapsed =
\* max(1, latest date - start_date) (1 when the latest date is missing).
C7_DaysClamped ==
  KpisReturned =>
    /\ kpis.days_total >= 1
    /\ kpis.days_elapsed >= 1
    /\ kpis.days_total = Max1(df[1].end_date[1] - df[1].start_date[1])
    /\ kpis.days_elapsed =
         IF IsNaT(kpis.latest_date) THEN 1
         ELSE Max1(kpis.latest_date[1] - df[1].start_date[1])

\* end_date before start_date, and the latest point dated before start_date.
C7_Witness ==
  /\ KpisReturned
  /\ df[1].end_date[1] < df[1].start_date[1]
  /\ ~IsNaT(kpis.latest_date)
  /\ kpis.latest_date[1] < df[1].start_date[1]
  /\ kpis.days_total = 1
  /\ kpis.days_elapsed = 1

(* ---- C8 ---- *)

\* C8 (as claimed): forecast_to_complete is always a finite number, and with
\* fewer than 2 usable points or a failing fit it equals
\* latest_spend * (days_total / days_elapsed).
C8_ForecastFinite ==
  KpisReturned =>
    /\ IsFinite(kpis.forecast_to_complete)
    /\ (~Usable(df) \/ FitFails(df)) =>
         kpis.forecast_to_complete =
           Mul(kpis.latest_spend, Norm(kpis.days_total, kpis.days_elapsed))

(* ---- C9 ---- *)

\* The least-squares line of spend against day offset, in centred form:
\* slope = sum((x - mx)(y - my)) / sum((x - mx)^2), through (mx, my).
LSLine(d) ==
  LET n  == Len(d)
      x  == XOf(d)
      y  == YOf(d)
      mx == Div(SumNum(x), Num(n))
      my == Div(SumNum(y), Num(n))
      m  == Div(SumNum([i \in 1..n |-> Mul(Sub(x[i], mx), Sub(y[i], my))]),
                SumNum([i \in 1..n |-> Mul(Sub(x[i], mx), Sub(x[i], mx))]))
  IN  <<m, Sub(my, Mul(m, mx))>>

\* The normal equations of a line: its residuals sum to 0 and are
\* orthogonal to x.
NormalEquations(d, line) ==
  LET r == [i \in 1..Len(d) |->
              Sub(YOf(d)[i], Add(Mul(line[1], XOf(d)[i]), line[2]))]
  IN  /\ SumNum(r) = Num(0)
      /\ SumNum([i \in 1..Len(d) |-> Mul(XOf(d)[i], r[i])]) = Num(0)

\* 100 * (0.6 * variance_pct + 0.4 * overload) of a returned record.
RawRisk(k) ==
  LET overload == IF Truthy(k.budget)
                    THEN Div(Sub(k.forecast_to_complete, k.budget), k.budget)
                    ELSE Num(0)
  IN  Add(Mul(Num(60), k.variance_pct), Mul(Num(40), overload))

\* Budget 1000, start day 0, end day 40, points (0,0), (10,400), (20,800).
ExampleSeries ==
  << Row(1, Num(1000), <<0>>, <<40>>, <<<<0>>, Num(0)>>),
     Row(1, Num(1000), <<0>>, <<40>>, <<<<10>>, Num(400)>>),
     Row(1, Num(1000), <<0>>, <<40>>, <<<<20>>, Num(800)>>) >>

DefaultThresholds ==
  /\ assessment.variance_threshold = <<1, 10>>
  /\ assessment.risk_threshold = Num(5)

\* forecast_to_complete is the least-squares line over all points at
\* x = days_total; the example gives 1600, -0.20, 12 and a risky flag with
\* all three reasons.
C9_FitAndExample ==
  /\ (KpisReturned /\ Usable(df) /\ FullRank(df)) =>
       /\ NormalEquations(df, LSLine(df))
       /\ kpis.forecast_to_complete =
            Add(Mul(LSLine(df)[1], Num(kpis.days_total)), LSLine(df)[2])
  /\ (KpisReturned /\ df = ExampleSeries) =>
       /\ kpis.forecast_to_complete = Num(1600)
       /\ kpis.variance_pct = <<-1, 5>>
       /\ kpis.risk_score = Num(12)
  /\ (pc = "flagged" /\ df = ExampleSeries /\ DefaultThresholds) =>
       /\ assessment.is_risky
       /\ assessment.messages = <<"variance", "risk_score", "forecast_over_budget">>

\* C9 (as claimed): with at least 2 usable points the forecast is the
\* least-squares line at days_total and risk_score =
\* 100 * (0.6 * variance_pct + 0.4 * overload); the example's values follow.
C9_UnclampedRisk ==
  /\ C9_FitAndExample
  /\ (KpisReturned /\ Usable(df)) => kpis.risk_score = RawRisk(kpis)

\* C9 (amended): as claimed, with risk_score =
\* clamp(100 * (0.6 * variance_pct + 0.4 * overload), -1000, 1000).
C9_ClampedRisk ==
  /\ C9_FitAndExample
  /\ (KpisReturned /\ Usable(df)) =>
       kpis.risk_score = Clip(RawRisk(kpis), Num(-1000), Num(1000))

\* The example, flagged with the default thresholds.
C9_Witness ==
  /\ pc = "flagged"
  /\ df = ExampleSeries
  /\ DefaultThresholds
  /\ kpis.risk_score = Num(12)
  /\ assessment.is_risky

(* ---- C10 ---- *)

PermutationsOf(d) ==
  {[i \in 1..Len(d) |-> d[f[i]]] : f \in Permutations(Len(d))}

===========================================================================
